---- MODULE Spec2Model ----
(***************************************************************************)
(* Knowledge-base ingestion pipeline (backend/app/services/etl_pipeline.py *)
(* with its triggers in routers/etl.py, routers/blob.py and main.py).      *)
(*                                                                         *)
(* The relational store, the object store, the embedding service and the   *)
(* vector index are the external collaborators; they are modelled by the   *)
(* contract the code uses.  db holds the rows as the running pass has      *)
(* written them, committed the rows as of the last commit: a pass commits  *)
(* at its end, a review reads the committed rows and commits its change,   *)
(* a handler that rolls back leaves the rows as they were committed.       *)
(*                                                                         *)
(* Scores are percentages (0.85 is 85).  A text is [len, topic]: its       *)
(* length in characters and the direction of its embedding.                *)
(***************************************************************************)
EXTENDS Integers, Sequences, FiniteSets, TLC

VARIABLES
    store,       \* knowledge_base container: file -> bytes id (0: no object)
    db,          \* metadata store: [docs, jobs, approvals, next_id]
    committed,   \* the rows of db as of the last commit
    qdrant,      \* vector index: set of points over both collections
    scans,       \* scanner -> [pc, todo, stats, job]: the scan passes
    scan_state,  \* routers/etl.py _scan_state
    resp,        \* status of the answer to the last admin request
    clock,       \* datetime.now() at the reviews
    reviews,     \* admin -> [pc, id]: the review calls in flight
    call         \* the call of a text utility in progress: [pc, text, ...]

vars == <<store, db, committed, qdrant, scans, scan_state, resp, clock,
          reviews, call>>

----------------------------------------------------------------------------
(* Bounds of the model *)

MaxRecords == 2
MaxJobs == 3
MaxApprovals == 2
MaxDocs == 3

(* Constants of the program *)

chunk_size == 1000
overlap == 200
similarity_threshold == 85
duplicate_threshold == 95
search_limit == 5
min_text_len == 50

QDRANT_COLLECTION == "knowledge_chunks"
CASE_STUDY_COLLECTION == "case_studies"

----------------------------------------------------------------------------
(* Objects of the container and their bytes *)

FileA == [dir |-> "kb", name |-> "a", ext |-> "txt"]
FileB == [dir |-> "kb", name |-> "b", ext |-> "txt"]
FileC == [dir |-> "kb", name |-> "c", ext |-> "txt"]
FileDeck == [dir |-> "case_study", name |-> "deck", ext |-> "pptx"]
FileNotes == [dir |-> "case_study", name |-> "notes", ext |-> "txt"]
FilePend == [dir |-> "pending", name |-> "x", ext |-> "txt"]
FileLong == [dir |-> "kb", name |-> "long", ext |-> "txt"]
FileBrief == [dir |-> "case_study", name |-> "brief", ext |-> "pptx"]
FileNested == [dir |-> "kb/pending", name |-> "y", ext |-> "txt"]

\* The order in which explorer() lists them.
Listing == <<FileA, FileB, FileC, FileDeck, FileNotes, FilePend, FileLong,
            FileBrief, FileNested>>

Files == {Listing[i] : i \in 1..Len(Listing)}

\* Bytes by id: 1..6 are plain documents, 10 + n is a deck of n case studies.
DeckBytes == {10 + n : n \in 0..MaxRecords}

Uploadable(f) ==
    CASE f = FileA -> {1}
      [] f = FileB -> {2, 3, 5}
      [] f = FileC -> {2, 5, 7, 8}
      [] f = FileDeck -> DeckBytes
      [] f = FileNotes -> {2, 3, 6}
      [] f = FileLong -> {2, 9, 14}
      [] f = FileBrief -> {15, 16, 17}
      [] OTHER -> {5}

\* hashlib.sha256(file_bytes).hexdigest(): distinct bytes, distinct digests.
Sha256(b) == <<"sha256", b>>

FileSize(b) == 100 * b

\* extract_text_from_file / extract_all_text_from_ppt of the bytes: len is
\* the length of the text after strip(), nonblank the number of its
\* characters that are not whitespace, topic what its embedding stands for.
ExtractText(b) ==
    CASE b = 1 -> [len |-> 2400, nonblank |-> 2000, topic |-> 1]
      [] b = 2 -> [len |-> 900, nonblank |-> 750, topic |-> 2]
      [] b = 3 -> [len |-> 900, nonblank |-> 750, topic |-> 3]
      [] b = 6 -> [len |-> 30, nonblank |-> 25, topic |-> 5]
      [] b = 7 -> [len |-> 900, nonblank |-> 750, topic |-> 4]
      [] b = 8 -> [len |-> 900, nonblank |-> 750, topic |-> 6]
      [] b = 9 -> [len |-> 3400, nonblank |-> 2833, topic |-> 2]
      [] b = 14 -> [len |-> 3400, nonblank |-> 2833, topic |-> 2]
      [] b = 15 -> [len |-> 60, nonblank |-> 45, topic |-> 5]
      [] b \in DeckBytes -> [len |-> 900, nonblank |-> 750, topic |-> 2]
      [] OTHER -> [len |-> 900, nonblank |-> 750, topic |-> 5]

\* parse_case_study_from_ppt: the full_text of each structured record.
ParseCaseStudies(b) ==
    IF b = 16
    THEN <<[len |-> 600, nonblank |-> 500, topic |-> 1],
           [len |-> 30, nonblank |-> 25, topic |-> 5]>>
    ELSE IF b = 17
    THEN <<[len |-> 30, nonblank |-> 25, topic |-> 5]>>
    ELSE IF b \in DeckBytes
    THEN [k \in 1..(b - 10) |-> [len |-> 600, nonblank |-> 500,
                                  topic |-> IF k = 1 THEN 1 ELSE 5]]
    ELSE <<>>

\* Cosine score of two embeddings, in percent.
Score(t, u) ==
    IF t = u THEN 100
    ELSE IF {t, u} = {1, 2} THEN 97
    ELSE IF {t, u} = {1, 4} THEN duplicate_threshold
    ELSE IF {t, u} = {1, 3} THEN 90
    ELSE IF {t, u} = {1, 6} THEN similarity_threshold
    ELSE 40

----------------------------------------------------------------------------
(* Helpers of the pipeline *)

IsCaseStudyDocument(f) ==
    \/ f.dir \in {"case_study", "case study", "casestudy"}
    \/ f.name \in {"case_study", "case study", "casestudy", "client_story"}

\* The folders of a file, outermost first.
DirSegments(f) ==
    IF f.dir = "kb/pending" THEN <<"kb", "pending">> ELSE <<f.dir>>

\* build_tree: the path of a listed file is its blob name, which starts with
\* the base folder; one element per segment, the file name last.
PathOf(f) == <<"knowledge_base">> \o DirSegments(f) \o <<f.name>>

\* The test of the path without its second half.
IsPendingPrefixOnly(f) == Len(PathOf(f)) > 1 /\ PathOf(f)[1] = "pending"

\* Line 101: path.startswith("pending/") or "/pending/" in path.
IsPendingPath(f) ==
    LET path == PathOf(f)
    IN  \/ Len(path) > 1 /\ path[1] = "pending"
        \/ \E i \in 2..(Len(path) - 1) : path[i] = "pending"

IsPpt(f) == f.ext \in {"ppt", "pptx"}

\* Blob path of a row: k = 0 is the file itself, k >= 2 is path#case_study_k.
BlobPath(f, k) == <<f, k>>

\* A text that is not empty after strip().
SufficientNonEmpty(text) == text.len > 0

\* Lines 276, 338: len(text.strip()) >= 50.
Sufficient(text) == text.len >= min_text_len

\* Number of chunks _chunk_text cuts a text of this length into.
NumChunks(len) ==
    IF len <= chunk_size THEN 1
    ELSE (len + (chunk_size - overlap) - 1) \div (chunk_size - overlap)

\* An id drawn anew at every attempt, as a random id would be.
FreshPointId(doc_id, idx) == <<doc_id, idx, Len(db.jobs)>>

\* The id of chunk idx of a document: a digest of "{doc.id}_{idx}".
PointId(doc_id, idx) == <<doc_id, idx>>

DocByPath(docs, bp) == {d \in docs : d.blob_path = bp}

DocById(docs, id) == {d \in docs : d.id = id}

HasPendingApproval(approvals, doc_id) ==
    \E i \in 1..Len(approvals) :
        /\ approvals[i].new_document_id = doc_id
        /\ approvals[i].status = "pending"

SetMax(S) == CHOOSE x \in S : \A y \in S : y <= x

ZeroStats == [scanned |-> 0, new |-> 0, updated |-> 0, failed |-> 0,
              pending_approval |-> 0]

Bump(stats, field) == [stats EXCEPT ![field] = @ + 1]

----------------------------------------------------------------------------
(* _vectorize_and_store: w is [db, qdrant]; outcome is what the embedding   *)
(* service and the index do: "ok", or "error" (the embedding call raises   *)
(* or returns another number of vectors, or the index refuses the points). *)

\* Lines 465-472: the job row is added with status processing and flushed.
BeginVectorize(w, doc_id) ==
    [w EXCEPT !.db.jobs = Append(@, [document_id |-> doc_id,
                                     status |-> "processing",
                                     chunks_processed |-> 0,
                                     vectors_created |-> 0,
                                     error_message |-> "none"])]

\* The document row updated without the flag.
MarkCountsOnly(doc, ids) ==
    [doc EXCEPT !.vector_count = Len(ids), !.qdrant_point_ids = ids]

\* Lines 531-536: the document row after its points were upserted.
MarkVectorized(doc, ids) ==
    [doc EXCEPT !.is_vectorized = TRUE,
                !.vector_count = Len(ids),
                !.qdrant_point_ids = ids]

\* Lines 474-550: chunks, embeddings, upsert, then the document and job j.
FinishVectorize(w, j, text, outcome) ==
    LET doc_id == w.db.jobs[j].document_id
        doc == CHOOSE d \in w.db.docs : d.id = doc_id
        n == NumChunks(text.len)
        ids == [i \in 1..n |-> PointId(doc_id, i - 1)]
        target == IF doc.document_type = "case_study"
                  THEN CASE_STUDY_COLLECTION ELSE QDRANT_COLLECTION
        points == {[collection |-> target,
                    id |-> ids[i],
                    document_id |-> doc_id,
                    chunk_index |-> i - 1,
                    document_type |-> doc.document_type,
                    vector |-> text.topic] : i \in 1..n}
        kept == {p \in w.qdrant :
                    ~(p.collection = target /\ p.id \in {ids[i] : i \in 1..n})}
        done == MarkVectorized(doc, ids)
        job(status, created, err) ==
            [document_id |-> doc_id, status |-> status, chunks_processed |-> n,
             vectors_created |-> created, error_message |-> err]
    IN  IF outcome = "ok"
        THEN [w |-> [db |-> [w.db EXCEPT
                                !.docs = (@ \ {doc}) \cup {done},
                                !.jobs[j] = job("completed", n, "none")],
                     qdrant |-> kept \cup points],
              raised |-> FALSE]
        ELSE [w |-> [db |-> [w.db EXCEPT
                                !.jobs[j] = job("failed", 0, outcome)],
                     qdrant |-> w.qdrant],
              raised |-> TRUE]

VectorizeAndStore(w, doc_id, text, outcome) ==
    FinishVectorize(BeginVectorize(w, doc_id), Len(w.db.jobs) + 1, text, outcome)

----------------------------------------------------------------------------
(* _find_similar_documents: the search runs on QDRANT_COLLECTION with       *)
(* limit 5 and score_threshold 0.85; hits is the answer of the index.      *)

Qualifying(points, collection, topic) ==
    {p \in points : p.collection = collection
                    /\ Score(topic, p.vector) > similarity_threshold}

\* hits is an answer the index may give: the best search_limit points.
IsSearchAnswer(hits, points, collection, topic) ==
    LET q == Qualifying(points, collection, topic)
    IN  /\ hits \subseteq q
        /\ Cardinality(hits) = IF Cardinality(q) < search_limit
                               THEN Cardinality(q) ELSE search_limit
        /\ \A p \in hits, r \in q \ hits :
               Score(topic, p.vector) >= Score(topic, r.vector)

SearchCollection == QDRANT_COLLECTION

FindSimilarDocuments(w, text, exclude_doc_id, hits) ==
    {[document_id |-> p.document_id,
      similarity_score |-> Score(text.topic, p.vector)] :
        p \in {h \in hits : /\ h.document_id # exclude_doc_id
                            /\ DocById(w.db.docs, h.document_id) # {}}}

----------------------------------------------------------------------------
(* _create_pending_approval *)

\* The classification with the duplicate bound included.
UpdateTypeInclusive(max_similarity) ==
    IF max_similarity >= duplicate_threshold THEN "duplicate"
    ELSE IF max_similarity > similarity_threshold THEN "update"
    ELSE "new"

UpdateType(max_similarity) ==
    IF max_similarity > duplicate_threshold THEN "duplicate"
    ELSE IF max_similarity > similarity_threshold THEN "update"
    ELSE "new"

CreatePendingApproval(w, doc_id, similar_docs) ==
    LET max_similarity == SetMax({s.similarity_score : s \in similar_docs})
        pending == [id |-> Len(w.db.approvals) + 1,
                    new_document_id |-> doc_id,
                    related_documents |-> {s.document_id : s \in similar_docs},
                    update_type |-> UpdateType(max_similarity),
                    similarity_score |-> max_similarity,
                    status |-> "pending",
                    reviewed_by |-> "none",
                    reviewed_at |-> 0,
                    admin_comment |-> "none"]
    IN  [w EXCEPT !.db.approvals = Append(@, pending)]

----------------------------------------------------------------------------
(* _process_single_document.  env is what the collaborators do during the  *)
(* call: download (the blob can be read), probe_ok (the probe's embedding  *)
(* and search succeed), hits (the answer of the index), vec (outcome of    *)
(* the vectorization), fail_at (the structured record it applies to) and   *)
(* delete_ok (the index deletes an orphan's vectors).                      *)

CaseStudyDoc(w, f, k, b) ==
    LET ex == DocByPath(w.db.docs, BlobPath(f, k))
        old == CHOOSE d \in ex : TRUE
        new == [id |-> w.db.next_id,
                blob_path |-> BlobPath(f, k),
                file_hash |-> Sha256(b),
                file_size |-> FileSize(b),
                is_vectorized |-> FALSE,
                document_type |-> "case_study",
                vector_count |-> 0,
                qdrant_point_ids |-> <<>>]
    IN  IF ex # {}
        THEN [w |-> [w EXCEPT !.db.docs = (@ \ {old}) \cup
                        {[old EXCEPT !.file_hash = Sha256(b),
                                     !.file_size = FileSize(b),
                                     !.is_vectorized = FALSE]}],
              doc_id |-> old.id]
        ELSE [w |-> [w EXCEPT !.db.docs = @ \cup {new},
                              !.db.next_id = @ + 1],
              doc_id |-> new.id]

\* Delete the rows path#case_study_k, k = from, from + 1, ... while they exist.
RECURSIVE RemoveOrphans(_, _, _, _)
RemoveOrphans(w, f, k, delete_ok) ==
    LET ex == DocByPath(w.db.docs, BlobPath(f, k))
        orphan == CHOOSE d \in ex : TRUE
        vectors == IF delete_ok
                   THEN {p \in w.qdrant :
                            ~(p.collection = CASE_STUDY_COLLECTION
                              /\ p.document_id = orphan.id)}
                   ELSE w.qdrant
        rows == [w.db EXCEPT
                    !.docs = @ \ {orphan},
                    !.jobs = SelectSeq(@, LAMBDA j : j.document_id # orphan.id),
                    !.approvals = SelectSeq(@,
                        LAMBDA a : a.new_document_id # orphan.id)]
    IN  IF ex = {} THEN w
        ELSE RemoveOrphans([db |-> rows, qdrant |-> vectors], f, k + 1, delete_ok)

\* The loop over the structured records, from record k on.
RECURSIVE ProcessCaseStudies(_, _, _, _, _, _)
ProcessCaseStudies(w, doc_id, f, b, k, env) ==
    LET case_studies == ParseCaseStudies(b)
        cur == IF k = 1 THEN [w |-> w, doc_id |-> doc_id]
               ELSE CaseStudyDoc(w, f, k, b)
        text == case_studies[k]
        r == VectorizeAndStore(cur.w, cur.doc_id, text,
                               IF env.fail_at = k THEN env.vec ELSE "ok")
    IN  IF k > Len(case_studies)
        THEN RemoveOrphans(w, f, Len(case_studies) + 1, env.delete_ok)
        ELSE IF ~Sufficient(text)
        THEN ProcessCaseStudies(cur.w, doc_id, f, b, k + 1, env)
        ELSE IF r.raised THEN r.w
        ELSE ProcessCaseStudies(r.w, doc_id, f, b, k + 1, env)

\* The changed row without the reset of is_vectorized.
ChangedKeepsFlag(old, b) ==
    [old EXCEPT !.file_hash = Sha256(b), !.file_size = FileSize(b)]

\* Lines 179-187: the row of a document whose bytes changed.
Changed(old, b) ==
    [old EXCEPT !.file_hash = Sha256(b),
                !.file_size = FileSize(b),
                !.is_vectorized = FALSE]

\* The skip without the test of is_vectorized.
SkipsPendingOnly(w, old) == HasPendingApproval(w.db.approvals, old.id)

\* Lines 153-172: the unchanged document the scan leaves alone.
SkipsUnchanged(w, old) ==
    \/ old.is_vectorized
    \/ HasPendingApproval(w.db.approvals, old.id)

\* Lines 143-205: what the scan decides from the stored row.
Admission(w, stats, f, b) ==
    LET ex == DocByPath(w.db.docs, BlobPath(f, 0))
        old == CHOOSE d \in ex : TRUE
        new == [id |-> w.db.next_id,
                blob_path |-> BlobPath(f, 0),
                file_hash |-> Sha256(b),
                file_size |-> FileSize(b),
                is_vectorized |-> FALSE,
                document_type |-> IF IsCaseStudyDocument(f)
                                  THEN "case_study" ELSE "general",
                vector_count |-> 0,
                qdrant_point_ids |-> <<>>]
    IN  IF ex = {}
        THEN [go |-> TRUE, doc_id |-> new.id, stats |-> Bump(stats, "new"),
              w |-> [w EXCEPT !.db.docs = @ \cup {new}, !.db.next_id = @ + 1]]
        ELSE IF old.file_hash # Sha256(b)
        THEN [go |-> TRUE, doc_id |-> old.id, stats |-> Bump(stats, "updated"),
              w |-> [w EXCEPT !.db.docs = (@ \ {old}) \cup {Changed(old, b)}]]
        ELSE IF SkipsUnchanged(w, old)
        THEN [go |-> FALSE, doc_id |-> old.id, stats |-> stats, w |-> w]
        ELSE [go |-> TRUE, doc_id |-> old.id, stats |-> Bump(stats, "updated"),
              w |-> w]

\* The text the probe and the whole-file vectorization work on.
TextContent(f, b) == ExtractText(b)

\* A probe whose failure flags the document for review.
ProbeFailureFlags(w, text, doc_id, env) ==
    IF env.probe_ok
    THEN FindSimilarDocuments(w, text, doc_id, env.hits)
    ELSE {[document_id |-> doc_id, similarity_score |-> 100]}

\* Lines 373-420: what the probe returns; a failing embedding call, an
\* embedding that holds nothing and a failing search all return [].
SimilarDocs(w, text, doc_id, env) ==
    IF env.probe_ok
    THEN FindSimilarDocuments(w, text, doc_id, env.hits)
    ELSE {}

ProcessSingleDocument(w, stats, f, b, env) ==
    LET adm == Admission(w, stats, f, b)
        doc == CHOOSE d \in adm.w.db.docs : d.id = adm.doc_id
        structured == /\ doc.document_type = "case_study"
                      /\ IsPpt(f)
                      /\ Len(ParseCaseStudies(b)) > 0
        text == TextContent(f, b)
        similar_docs == SimilarDocs(adm.w, text, adm.doc_id, env)
        v == VectorizeAndStore(adm.w, adm.doc_id, text, env.vec)
        same == [w |-> w, stats |-> stats, raised |-> FALSE]
    IN  IF ~env.download THEN same
        ELSE IF ~adm.go THEN same
        ELSE IF structured
        THEN [same EXCEPT !.w = ProcessCaseStudies(adm.w, adm.doc_id, f, b, 1, env),
                          !.stats = adm.stats]
        ELSE IF ~Sufficient(text)
        THEN [same EXCEPT !.w = adm.w, !.stats = adm.stats]
        ELSE IF similar_docs # {}
        THEN [w |-> CreatePendingApproval(adm.w, adm.doc_id, similar_docs),
              stats |-> Bump(adm.stats, "pending_approval"),
              raised |-> FALSE]
        ELSE [w |-> v.w, stats |-> adm.stats, raised |-> v.raised]


----------------------------------------------------------------------------
(* The scan passes.  "post1" and "post2" run _run_etl_scan_background      *)
(* (POST /scan), "upload" runs _trigger_etl_scan, "sched" runs one turn of *)
(* periodic_etl_scan.                                                      *)

PostScanners == {"post1", "post2"}

Scanners == PostScanners \cup {"upload", "sched"}

Admins == {"admin1", "admin2"}

Comments == {"none", "noted"}

Outcomes == {"ok", "error"}

Idle == [pc |-> "idle", todo |-> <<>>, stats |-> ZeroStats, job |-> 0]

Quiet == \A s \in Scanners : scans[s].pc = "idle"

Running(s) == scans[s].pc = "running"

NoStats == [is_scanning |-> FALSE, has_stats |-> FALSE, stats |-> ZeroStats,
            error |-> "none"]

\* put(path, bytes) on the container, by any writer.
PutObject(f, b) ==
    /\ Quiet
    /\ store[f] # b
    /\ store' = [store EXCEPT ![f] = b]
    /\ UNCHANGED <<db, committed, qdrant, scans, scan_state, resp, clock, reviews, call>>

\* POST /upload/file with base knowledge_base: the scan is queued behind it.
upload_file(f, b) ==
    /\ scans["upload"].pc = "idle"
    /\ store' = [store EXCEPT ![f] = b]
    /\ scans' = [scans EXCEPT !["upload"].pc = "queued"]
    /\ UNCHANGED <<db, committed, qdrant, scan_state, resp, clock, reviews, call>>

\* POST /scan.
trigger_etl_scan ==
    /\ \/ /\ scan_state.is_scanning
          /\ resp' = "already_running"
          /\ UNCHANGED scans
       \/ /\ ~scan_state.is_scanning
          /\ LET s == IF scans["post1"].pc = "idle" THEN "post1" ELSE "post2"
             IN  /\ scans[s].pc = "idle"
                 /\ scans' = [scans EXCEPT ![s].pc = "queued"]
          /\ resp' = "started"
    /\ UNCHANGED <<store, db, committed, qdrant, scan_state, clock, reviews, call>>

CanBegin(s) == scans[s].pc = IF s = "sched" THEN "idle" ELSE "queued"

\* The pass starts: explorer("knowledge_base") lists the container.
ScanBegin(s) ==
    /\ CanBegin(s)
    /\ LET all_files == SelectSeq(Listing, LAMBDA f : store[f] # 0)
       IN  scans' = [scans EXCEPT ![s] =
                [pc |-> "running", todo |-> all_files,
                 stats |-> [ZeroStats EXCEPT !.scanned = Len(all_files)],
                 job |-> 0]]
    /\ scan_state' = IF s \in PostScanners
                     THEN [scan_state EXCEPT !.is_scanning = TRUE,
                                             !.has_stats = FALSE,
                                             !.stats = ZeroStats,
                                             !.error = "none"]
                     ELSE scan_state
    /\ UNCHANGED <<store, db, committed, qdrant, resp, clock, reviews, call>>

\* The pass cannot list the container: it rolls back and raises.
ScanAbort(s) ==
    /\ CanBegin(s)
    /\ scans' = [scans EXCEPT ![s] = Idle]
    /\ scan_state' = IF s \in PostScanners
                     THEN [is_scanning |-> FALSE, has_stats |-> FALSE,
                           stats |-> ZeroStats, error |-> "scan failed"]
                     ELSE scan_state
    /\ UNCHANGED <<store, db, committed, qdrant, resp, clock, reviews, call>>

\* What the collaborators may do during one _process_single_document;
\* reliable: every call to them succeeds.
Envs(f, b, reliable) ==
    LET topic == TextContent(f, b).topic
        answers == {h \in SUBSET Qualifying(qdrant, SearchCollection, topic) :
                        IsSearchAnswer(h, qdrant, SearchCollection, topic)}
        env(download, probe_ok, hits, vec, fail_at, delete_ok) ==
            [download |-> download, probe_ok |-> probe_ok, hits |-> hits,
             vec |-> vec, fail_at |-> fail_at, delete_ok |-> delete_ok]
    IN  IF reliable
        THEN {env(TRUE, TRUE, h, "ok", 1, TRUE) : h \in answers}
        ELSE {env(FALSE, FALSE, {}, "ok", 1, TRUE)}
             \cup {env(TRUE, FALSE, {}, vec, 1, TRUE) : vec \in Outcomes}
             \cup {env(TRUE, TRUE, h, vec, 1, TRUE) :
                        h \in answers, vec \in Outcomes}
             \cup {env(TRUE, TRUE, {}, "error", k, TRUE) : k \in 1..MaxRecords}
             \cup {env(TRUE, TRUE, {}, "ok", 1, FALSE)}

\* One turn of the loop over all_files.
ScanDoc(s, reliable) ==
    /\ Running(s)
    /\ scans[s].todo # <<>>
    /\ LET f == Head(scans[s].todo)
           b == store[f]
           stats == scans[s].stats
           results == {ProcessSingleDocument([db |-> db, qdrant |-> qdrant],
                                             stats, f, b, env) :
                          env \in Envs(f, b, reliable)}
       IN  IF IsPendingPath(f)
           THEN /\ scans' = [scans EXCEPT
                                ![s].todo = Tail(@),
                                ![s].stats = Bump(stats, "pending_approval")]
                /\ UNCHANGED <<db, qdrant>>
           ELSE \E r \in results :
                /\ db' = r.w.db
                /\ qdrant' = r.w.qdrant
                /\ scans' = [scans EXCEPT
                                ![s].todo = Tail(@),
                                ![s].stats = IF r.raised
                                             THEN Bump(r.stats, "failed")
                                             ELSE r.stats]
                /\ Len(db'.jobs) <= MaxJobs
                /\ Len(db'.approvals) <= MaxApprovals
                /\ db'.next_id <= MaxDocs + 1
    /\ UNCHANGED <<store, committed, scan_state, resp, clock, reviews, call>>

\* A turn that reaches _vectorize_and_store, up to the flush of the job row
\* (line 472), where the pass is suspended.
VectorizeBegin(s) ==
    /\ Running(s)
    /\ scans[s].todo # <<>>
    /\ LET f == Head(scans[s].todo)
           b == store[f]
           w == [db |-> db, qdrant |-> qdrant]
           adm == Admission(w, scans[s].stats, f, b)
           text == TextContent(f, b)
       IN  /\ ~IsPendingPath(f)
           /\ adm.go
           /\ ~(IsCaseStudyDocument(f) /\ IsPpt(f))
           /\ Sufficient(text)
           /\ \E env \in Envs(f, b, TRUE) :
                 FindSimilarDocuments(adm.w, text, adm.doc_id, env.hits) = {}
           /\ db' = BeginVectorize(adm.w, adm.doc_id).db
           /\ scans' = [scans EXCEPT ![s].pc = "vectorizing",
                                     ![s].stats = adm.stats,
                                     ![s].job = Len(db'.jobs)]
           /\ Len(db'.jobs) <= MaxJobs
           /\ db'.next_id <= MaxDocs + 1
    /\ UNCHANGED <<store, committed, qdrant, scan_state, resp, clock, reviews, call>>

\* The rest of the turn: the vectorization ends and the loop goes on.
VectorizeEnd(s, outcome) ==
    /\ scans[s].pc = "vectorizing"
    /\ LET f == Head(scans[s].todo)
           r == FinishVectorize([db |-> db, qdrant |-> qdrant], scans[s].job,
                                TextContent(f, store[f]), outcome)
       IN  /\ db' = r.w.db
           /\ qdrant' = r.w.qdrant
           /\ scans' = [scans EXCEPT
                           ![s].pc = "running",
                           ![s].todo = Tail(@),
                           ![s].job = 0,
                           ![s].stats = IF r.raised THEN Bump(@, "failed") ELSE @]
    /\ UNCHANGED <<store, committed, scan_state, resp, clock, reviews, call>>

\* The loop is over: commit, and the stats are returned.  The rows of db
\* become the committed ones once no other pass holds rows of its own.
ScanEnd(s) ==
    /\ Running(s)
    /\ scans[s].todo = <<>>
    /\ scans' = [scans EXCEPT ![s] = Idle]
    /\ scan_state' = IF s \in PostScanners
                     THEN [scan_state EXCEPT !.is_scanning = FALSE,
                                             !.has_stats = TRUE,
                                             !.stats = scans[s].stats]
                     ELSE scan_state
    /\ committed' = IF \A t \in Scanners \ {s} : scans[t].pc \in {"idle", "queued"}
                    THEN db ELSE committed
    /\ UNCHANGED <<store, db, qdrant, resp, clock, reviews, call>>

\* The pass is cancelled or its process dies between two documents: the
\* commit of line 112 is never reached, the session is closed and its rows
\* are rolled back to the committed ones.  The index keeps what was
\* upserted, and the ids (uuid4) the pass drew are not drawn again.
ScanCrash(s) ==
    /\ Running(s)
    /\ scans[s].todo # <<>>
    /\ scans' = [scans EXCEPT ![s] = Idle]
    /\ db' = [committed EXCEPT !.next_id = db.next_id]
    /\ UNCHANGED <<store, committed, qdrant, scan_state, resp, clock, reviews, call>>

\* The commit of line 112 fails: the pass rolls back and raises (lines
\* 117-120); _run_etl_scan_background records the error (lines 64-67).
ScanCommitFail(s) ==
    /\ Running(s)
    /\ scans[s].todo = <<>>
    /\ scans' = [scans EXCEPT ![s] = Idle]
    /\ db' = [committed EXCEPT !.next_id = db.next_id]
    /\ scan_state' = IF s \in PostScanners
                     THEN [scan_state EXCEPT !.is_scanning = FALSE,
                                             !.error = "scan failed"]
                     ELSE scan_state
    /\ UNCHANGED <<store, committed, qdrant, resp, clock, reviews, call>>

----------------------------------------------------------------------------
(* The approval workflow *)

ApprovalIds == 1..(MaxApprovals + 1)

\* The approvals a review can find pending: those of the committed rows.
OpenIds ==
    {i \in 1..Len(committed.approvals) : committed.approvals[i].status = "pending"}

Reviewed(approval, status, admin, comment) ==
    [approval EXCEPT !.status = status, !.reviewed_by = admin,
                     !.reviewed_at = clock, !.admin_comment = comment]

\* Lines 641-654 on the rows given: the approval is marked approved and the
\* document vectorized.
ApproveRows(rows, id, admin, comment, vec) ==
    LET marked == [rows EXCEPT !.approvals[id] =
                      Reviewed(@, "approved", admin, comment)]
        doc_id == rows.approvals[id].new_document_id
        doc == CHOOSE d \in rows.docs : d.id = doc_id
    IN  VectorizeAndStore([db |-> marked, qdrant |-> qdrant], doc_id,
                          ExtractText(store[doc.blob_path[1]]), vec)

\* approve_and_process without the rollback: a failed approve keeps the
\* approval approved.
ApproveNoRollback(id, admin, comment, download, vec) ==
    /\ IF \/ id \notin OpenIds
          \/ DocById(committed.docs, committed.approvals[id].new_document_id) = {}
       THEN /\ resp' = "error"
            /\ UNCHANGED <<db, committed, qdrant, clock>>
       ELSE LET r == ApproveRows(db, id, admin, comment, vec)
                c == ApproveRows(committed, id, admin, comment, vec)
                marked(rows) == [rows EXCEPT !.approvals[id] =
                                    Reviewed(@, "approved", admin, comment)]
            IN  IF download /\ ~r.raised
                THEN /\ db' = r.w.db
                     /\ committed' = c.w.db
                     /\ qdrant' = r.w.qdrant
                     /\ clock' = clock + 1
                     /\ resp' = "success"
                     /\ Len(db'.jobs) <= MaxJobs
                ELSE /\ resp' = "error"
                     /\ db' = marked(db)
                     /\ committed' = marked(committed)
                     /\ clock' = clock + 1
                     /\ UNCHANGED qdrant
    /\ UNCHANGED <<store, scans, scan_state, reviews, call>>

\* POST /approve/{id}: approve_and_process, which commits at its end.
approve_and_process(id, admin, comment, download, vec) ==
    /\ IF \/ id \notin OpenIds
          \/ DocById(committed.docs, committed.approvals[id].new_document_id) = {}
       THEN /\ resp' = "error"
            /\ UNCHANGED <<db, committed, qdrant, clock>>
       ELSE LET r == ApproveRows(db, id, admin, comment, vec)
                c == ApproveRows(committed, id, admin, comment, vec)
            IN  IF download /\ ~r.raised
                THEN /\ db' = r.w.db
                     /\ committed' = c.w.db
                     /\ qdrant' = r.w.qdrant
                     /\ clock' = clock + 1
                     /\ resp' = "success"
                     /\ Len(db'.jobs) <= MaxJobs
                ELSE /\ resp' = "error"
                     /\ UNCHANGED <<db, committed, qdrant, clock>>
    /\ UNCHANGED <<store, scans, scan_state, reviews, call>>

\* Lines 692-698 on the rows given.
RejectRows(rows, id, admin, comment) ==
    [rows EXCEPT !.approvals[id] = Reviewed(@, "rejected", admin, comment)]

\* reject_update without the test of the status.
RejectAnyStatus(id, admin, comment) ==
    /\ IF id \notin 1..Len(committed.approvals)
       THEN /\ resp' = "error"
            /\ UNCHANGED <<db, committed, clock>>
       ELSE /\ db' = RejectRows(db, id, admin, comment)
            /\ committed' = RejectRows(committed, id, admin, comment)
            /\ clock' = clock + 1
            /\ resp' = "success"
    /\ UNCHANGED <<store, qdrant, scans, scan_state, reviews, call>>

\* POST /reject/{id}: reject_update, which commits at its end.
reject_update(id, admin, comment) ==
    /\ IF id \notin OpenIds
       THEN /\ resp' = "error"
            /\ UNCHANGED <<db, committed, clock>>
       ELSE /\ db' = RejectRows(db, id, admin, comment)
            /\ committed' = RejectRows(committed, id, admin, comment)
            /\ clock' = clock + 1
            /\ resp' = "success"
    /\ UNCHANGED <<store, qdrant, scans, scan_state, reviews, call>>

\* No text utility is being called.
NoCall == [pc |-> "none"]

\* A review call that is not in flight.
NoReview == [pc |-> "idle", id |-> 0]

\* Lines 617-639 and 679-690: the call reads the approval and its document
\* from the committed rows and raises if the approval is missing or closed;
\* otherwise it goes on, holding the row it read.
ReviewRead(a, kind, id) ==
    /\ reviews[a].pc = "idle"
    /\ IF \/ id \notin OpenIds
          \/ /\ kind = "approving"
             /\ DocById(committed.docs,
                        committed.approvals[id].new_document_id) = {}
       THEN /\ resp' = "error"
            /\ UNCHANGED reviews
       ELSE /\ reviews' = [reviews EXCEPT ![a] = [pc |-> kind, id |-> id]]
            /\ UNCHANGED resp
    /\ UNCHANGED <<store, db, committed, qdrant, scans, scan_state, clock, call>>

\* Lines 641-668 of an approve in flight: the row it holds is marked
\* approved, the document is vectorized and the session commits; a failure
\* rolls the session back.
ApproveWrite(a, comment, download, vec) ==
    /\ reviews[a].pc = "approving"
    /\ LET id == reviews[a].id
           r == ApproveRows(db, id, a, comment, vec)
           c == ApproveRows(committed, id, a, comment, vec)
       IN  IF download /\ ~r.raised
           THEN /\ db' = r.w.db
                /\ committed' = c.w.db
                /\ qdrant' = r.w.qdrant
                /\ clock' = clock + 1
                /\ resp' = "success"
                /\ Len(db'.jobs) <= MaxJobs
           ELSE /\ resp' = "error"
                /\ UNCHANGED <<db, committed, qdrant, clock>>
    /\ reviews' = [reviews EXCEPT ![a] = NoReview]
    /\ UNCHANGED <<store, scans, scan_state, call>>

\* Lines 692-704 of a reject in flight: the row it holds is marked rejected
\* and the session commits.
RejectWrite(a, comment) ==
    /\ reviews[a].pc = "rejecting"
    /\ LET id == reviews[a].id
       IN  /\ db' = RejectRows(db, id, a, comment)
           /\ committed' = RejectRows(committed, id, a, comment)
    /\ clock' = clock + 1
    /\ resp' = "success"
    /\ reviews' = [reviews EXCEPT ![a] = NoReview]
    /\ UNCHANGED <<store, qdrant, scans, scan_state, call>>

\* The documents of the failed jobs a reset finds.
FailedDocs ==
    {committed.jobs[i].document_id :
        i \in {j \in 1..Len(committed.jobs) : committed.jobs[j].status = "failed"}}

\* Lines 478-483 on the rows given.
ResetRows(rows) ==
    [rows EXCEPT !.docs = {IF d.id \in FailedDocs
                           THEN [d EXCEPT !.is_vectorized = FALSE,
                                          !.vector_count = 0,
                                          !.qdrant_point_ids = <<>>]
                           ELSE d : d \in @}]

\* The reset that clears the count and the ids but leaves is_vectorized.
ResetKeepsFlag ==
    LET kept(rows) ==
            [rows EXCEPT !.docs = {IF d.id \in FailedDocs
                                   THEN [d EXCEPT !.vector_count = 0,
                                                  !.qdrant_point_ids = <<>>]
                                   ELSE d : d \in @}]
    IN  /\ db' = kept(db)
        /\ committed' = kept(committed)
        /\ resp' = "success"
        /\ UNCHANGED <<store, qdrant, scans, scan_state, clock, reviews, call>>

\* POST /reset-failed-documents, which commits at its end.
reset_failed_documents ==
    /\ db' = ResetRows(db)
    /\ committed' = ResetRows(committed)
    /\ resp' = "success"
    /\ UNCHANGED <<store, qdrant, scans, scan_state, clock, reviews, call>>

----------------------------------------------------------------------------
(* Specifications *)

Init ==
    /\ store = [f \in Files |-> 0]
    /\ db = [docs |-> {}, jobs |-> <<>>, approvals |-> <<>>, next_id |-> 1]
    /\ committed = db
    /\ qdrant = {}
    /\ scans = [s \in Scanners |-> Idle]
    /\ scan_state = NoStats
    /\ resp = "none"
    /\ clock = 1
    /\ reviews = [a \in Admins |-> NoReview]
    /\ call = NoCall

KbFiles == {FileA, FileB}

\* The knowledge-base documents under the scheduled scan and the reviews of
\* the open approvals.
Next ==
    \/ \E f \in KbFiles : \E b \in Uploadable(f) : PutObject(f, b)
    \/ ScanBegin("sched")
    \/ ScanDoc("sched", FALSE)
    \/ ScanEnd("sched")
    \/ \E id \in OpenIds, download \in BOOLEAN, vec \in Outcomes :
            approve_and_process(id, "admin1", "none", download, vec)
    \/ \E id \in OpenIds : reject_update(id, "admin1", "none")
    \/ reset_failed_documents

Spec == Init /\ [][Next]_vars

\* The same documents and reviews, the collaborators answering every call.
NextKb ==
    \/ \E f \in KbFiles : \E b \in Uploadable(f) : PutObject(f, b)
    \/ ScanBegin("sched")
    \/ ScanDoc("sched", TRUE)
    \/ ScanEnd("sched")
    \/ \E id \in OpenIds : approve_and_process(id, "admin1", "none", TRUE, "ok")
    \/ \E id \in OpenIds : reject_update(id, "admin1", "none")

SpecKb == Init /\ [][NextKb]_vars

CaseStudyFiles == {FileA, FileDeck, FileNotes}

\* The case studies and one knowledge-base document under the scheduled
\* scan, the collaborators answering every call.
NextCaseStudy ==
    \/ \E f \in CaseStudyFiles : \E b \in Uploadable(f) : PutObject(f, b)
    \/ ScanBegin("sched")
    \/ ScanDoc("sched", TRUE)
    \/ ScanEnd("sched")
    \/ \E id \in OpenIds : approve_and_process(id, "admin1", "none", TRUE, "ok")
    \/ \E id \in OpenIds : reject_update(id, "admin1", "none")

SpecCaseStudy == Init /\ [][NextCaseStudy]_vars

FailureFiles == {FileB, FileDeck}

\* A plain document and a multi-record file under the scheduled scan, the
\* collaborators failing as they may.
NextFailures ==
    \/ \E f \in FailureFiles : \E b \in Uploadable(f) : PutObject(f, b)
    \/ ScanBegin("sched")
    \/ ScanDoc("sched", FALSE)
    \/ ScanEnd("sched")

SpecFailures == Init /\ [][NextFailures]_vars

CrashFiles == {FileA, FileB}

\* The scheduled scan over two documents, cancelled or killed between
\* documents as it may be, the collaborators answering every call.
NextCrash ==
    \/ \E f \in CrashFiles : \E b \in Uploadable(f) : PutObject(f, b)
    \/ ScanBegin("sched")
    \/ ScanDoc("sched", TRUE)
    \/ ScanCrash("sched")
    \/ ScanEnd("sched")

SpecCrash == Init /\ [][NextCrash]_vars

ResetFiles == {FileB, FileDeck}

\* Failed vectorizations and their recovery: the scheduled passes meet
\* collaborators that fail as they may, the passes that follow an upload
\* meet collaborators that answer every call, and an administrator resets
\* the failed documents.
NextReset ==
    \/ \E f \in ResetFiles : \E b \in Uploadable(f) : upload_file(f, b)
    \/ \E s \in {"sched", "upload"} : ScanBegin(s)
    \/ ScanDoc("sched", FALSE)
    \/ ScanDoc("upload", TRUE)
    \/ \E s \in {"sched", "upload"} : ScanEnd(s)
    \/ reset_failed_documents

SpecReset == Init /\ [][NextReset]_vars

StatusFiles == {FileA}

\* The passes POST /scan starts, which may fail to list the container or
\* to commit, under GET /scan/status.
NextStatus ==
    \/ \E f \in StatusFiles : \E b \in Uploadable(f) : PutObject(f, b)
    \/ trigger_etl_scan
    \/ \E s \in PostScanners : ScanBegin(s)
    \/ \E s \in PostScanners : ScanAbort(s)
    \/ \E s \in PostScanners : ScanDoc(s, TRUE)
    \/ \E s \in PostScanners : ScanCommitFail(s)
    \/ \E s \in PostScanners : ScanEnd(s)

SpecStatus == Init /\ [][NextStatus]_vars

ProbeFiles == {FileA, FileLong}

\* A document of five chunks and one that resembles it, under the scheduled
\* scan and the approval of the open approvals, the collaborators answering
\* every call.
NextProbe ==
    \/ \E f \in ProbeFiles : \E b \in Uploadable(f) : PutObject(f, b)
    \/ ScanBegin("sched")
    \/ ScanDoc("sched", TRUE)
    \/ ScanEnd("sched")
    \/ \E id \in OpenIds : approve_and_process(id, "admin1", "none", TRUE, "ok")

SpecProbe == Init /\ [][NextProbe]_vars

SkipFiles == {FileNotes, FileBrief}

\* Files whose text, or one of whose structured records, is too short, under
\* the scheduled scan, the collaborators failing as they may.
NextSkip ==
    \/ \E f \in SkipFiles : \E b \in Uploadable(f) : PutObject(f, b)
    \/ ScanBegin("sched")
    \/ ScanDoc("sched", FALSE)
    \/ ScanEnd("sched")

SpecSkip == Init /\ [][NextSkip]_vars

PendingFiles == {FileA, FileB, FilePend, FileNested}

\* Objects under a pending folder and one beside them, under the scheduled
\* scan, the collaborators failing as they may.
NextPending ==
    \/ \E f \in PendingFiles : \E b \in Uploadable(f) : PutObject(f, b)
    \/ ScanBegin("sched")
    \/ ScanDoc("sched", FALSE)
    \/ ScanEnd("sched")

SpecPending == Init /\ [][NextPending]_vars

RetryFiles == {FileDeck}

\* A multi-record file: the passes that follow an upload meet collaborators
\* that fail as they may; the scheduled scan, which periodic_etl_scan starts
\* again every 30 minutes for as long as the service runs, meets
\* collaborators that answer every call, and each pass it starts goes
\* through its files and ends.
NextRetry ==
    \/ \E f \in RetryFiles : \E b \in Uploadable(f) : upload_file(f, b)
    \/ ScanBegin("upload")
    \/ ScanDoc("upload", FALSE)
    \/ ScanEnd("upload")
    \/ ScanBegin("sched")
    \/ ScanDoc("sched", TRUE)
    \/ ScanEnd("sched")

SpecRetry ==
    /\ Init
    /\ [][NextRetry]_vars
    /\ WF_vars(ScanBegin("sched"))
    /\ WF_vars(ScanDoc("sched", TRUE))
    /\ WF_vars(ScanEnd("sched"))

StaleFiles == {FileB, FileLong}

\* A document whose text shrinks from five chunks to one, and another, under
\* the scheduled scan, the collaborators answering every call.
NextStale ==
    \/ \E f \in StaleFiles : \E b \in Uploadable(f) : PutObject(f, b)
    \/ ScanBegin("sched")
    \/ ScanDoc("sched", TRUE)
    \/ ScanEnd("sched")

SpecStale == Init /\ [][NextStale]_vars

TriggerFiles == {FileA, FilePend}

\* The three triggers of a pass: POST /scan, an upload to the knowledge base
\* and the scheduler, the collaborators answering every call of a pass that
\* could list the container.
NextTriggers ==
    \/ trigger_etl_scan
    \/ \E f \in TriggerFiles : \E b \in Uploadable(f) : upload_file(f, b)
    \/ \E s \in Scanners : ScanBegin(s)
    \/ \E s \in Scanners : ScanAbort(s)
    \/ \E s \in Scanners : ScanDoc(s, TRUE)
    \/ \E s \in Scanners : ScanEnd(s)

SpecTriggers == Init /\ [][NextTriggers]_vars

\* The reviews an admin may ask for, on any id, between and during the
\* scheduled passes over the knowledge-base documents.
NextReview ==
    \/ \E f \in KbFiles : \E b \in Uploadable(f) : PutObject(f, b)
    \/ ScanBegin("sched")
    \/ ScanDoc("sched", TRUE)
    \/ ScanEnd("sched")
    \/ \E id \in ApprovalIds, admin \in Admins, comment \in Comments :
            approve_and_process(id, admin, comment, TRUE, "ok")
    \/ \E id \in ApprovalIds, admin \in Admins, comment \in Comments :
            reject_update(id, admin, comment)

SpecReview == Init /\ [][NextReview]_vars

JobFiles == {FileB}

\* Two passes, the scheduled one and the one an upload queues, over one
\* document, their vectorizations suspended at the flush of the job row.
NextJobs ==
    \/ \E f \in JobFiles : \E b \in Uploadable(f) : upload_file(f, b)
    \/ \E s \in {"sched", "upload"} : ScanBegin(s)
    \/ \E s \in {"sched", "upload"} : ScanDoc(s, TRUE)
    \/ \E s \in {"sched", "upload"} : VectorizeBegin(s)
    \/ \E s \in {"sched", "upload"}, outcome \in Outcomes : VectorizeEnd(s, outcome)
    \/ \E s \in {"sched", "upload"} : ScanEnd(s)

SpecJobs == Init /\ [][NextJobs]_vars

ThresholdFiles == {FileA, FileC}

\* Two knowledge-base documents whose scores lie on both sides of the two
\* bounds and on them, the collaborators answering every call.
NextThreshold ==
    \/ \E f \in ThresholdFiles : \E b \in Uploadable(f) : PutObject(f, b)
    \/ ScanBegin("sched")
    \/ ScanDoc("sched", TRUE)
    \/ ScanEnd("sched")
    \/ \E id \in OpenIds : approve_and_process(id, "admin1", "none", TRUE, "ok")
    \/ \E id \in OpenIds : reject_update(id, "admin1", "none")

SpecThreshold == Init /\ [][NextThreshold]_vars

----------------------------------------------------------------------------
(* Properties *)

PointsOf(points, doc_id) == {p \in points : p.document_id = doc_id}

OpenApprovalsOf(approvals, doc_id) ==
    {i \in 1..Len(approvals) : /\ approvals[i].new_document_id = doc_id
                               /\ approvals[i].status = "pending"}

JobsOf(jobs, doc_id) == {i \in 1..Len(jobs) : jobs[i].document_id = doc_id}

ApprovalsOf(approvals, doc_id) ==
    {i \in 1..Len(approvals) : approvals[i].new_document_id = doc_id}

\* The step turns the document from unvectorized (or absent) to vectorized.
BecomesVectorized(doc_id) ==
    /\ \E d \in db'.docs : d.id = doc_id /\ d.is_vectorized
    /\ ~\E d \in db.docs : d.id = doc_id /\ d.is_vectorized

\* The step approves an approval of the document that was open before it.
ApprovedInStep(doc_id) ==
    \E i \in OpenApprovalsOf(db.approvals, doc_id) :
        /\ i <= Len(db'.approvals)
        /\ db'.approvals[i].status = "approved"

\* C1 (no silent overwrite): a document whose content scores above the
\* threshold against an already vectorized document of its category becomes
\* vectorized only by the approval of its PendingApproval, in both categories.
C1_NoSilentOverwrite ==
    [][\A d \in db'.docs :
          BecomesVectorized(d.id) =>
              \/ ApprovedInStep(d.id)
              \/ \A e \in db.docs :
                    (e.id # d.id /\ e.is_vectorized
                     /\ e.document_type = d.document_type) =>
                        \A p \in PointsOf(qdrant', d.id),
                           q \in PointsOf(qdrant, e.id) :
                              Score(p.vector, q.vector) <= similarity_threshold]_vars

\* C2: a document with an open approval becomes vectorized only in a step
\* that approves that approval; no scan step vectorizes it.
C2_OnlyApproveVectorizesPending ==
    [][\A d \in db.docs :
          (OpenApprovalsOf(db.approvals, d.id) # {} /\ BecomesVectorized(d.id))
              => ApprovedInStep(d.id)]_vars

\* C3: at most one PendingApproval with status pending exists per document.
C3_AtMostOneOpenApproval ==
    \A d \in db.docs : Cardinality(OpenApprovalsOf(db.approvals, d.id)) <= 1

\* The last approval of the document is rejected, nothing was attempted on
\* the document since, and the stored fingerprint is that of the object.
RejectedUnchanged(d) ==
    /\ ApprovalsOf(db.approvals, d.id) # {}
    /\ db.approvals[SetMax(ApprovalsOf(db.approvals, d.id))].status = "rejected"
    /\ JobsOf(db.jobs, d.id) = {}
    /\ ~d.is_vectorized
    /\ d.file_hash = Sha256(store[d.blob_path[1]])

\* C4: after a reject, while the fingerprint is unchanged, no step changes
\* the document row, creates a job for it or opens a new approval for it.
C4_RejectIsPermanent ==
    [][\A d \in db.docs :
          RejectedUnchanged(d) =>
              /\ d \in db'.docs
              /\ JobsOf(db'.jobs, d.id) = {}
              /\ ApprovalsOf(db'.approvals, d.id) = ApprovalsOf(db.approvals, d.id)]_vars

\* C5: at most one scan pass is active at any time, whichever trigger
\* started it.
C5_AtMostOneScanPass == Cardinality({s \in Scanners : Running(s)}) <= 1

\* The step is the turn of pass s on object f.
ScanStepOn(s, f) ==
    /\ Running(s)
    /\ scans[s].todo # <<>>
    /\ Head(scans[s].todo) = f
    /\ scans'[s].todo = Tail(scans[s].todo)

\* The row of f holds the fingerprint of the bytes now under the path.
RowUnchanged(d, f) ==
    /\ d.blob_path = BlobPath(f, 0)
    /\ d.file_hash = Sha256(store[f])

CompletedInStep(doc_id) ==
    \E i \in 1..Len(db'.jobs) :
        /\ i > Len(db.jobs)
        /\ db'.jobs[i].document_id = doc_id
        /\ db'.jobs[i].status = "completed"

CompletedJobsOf(jobs, doc_id) ==
    {i \in JobsOf(jobs, doc_id) : jobs[i].status = "completed"}

\* C7: the ids a vectorization gives the chunks of a document depend on the
\* document and the chunk index only: the ids of the row are those of its
\* chunks in the index, vectorizing the document again overwrites its
\* entries (the index holds one entry per chunk, not one per attempt).
C7_DeterministicVectorIds ==
    [][\A d \in db'.docs :
          CompletedInStep(d.id) =>
              LET before == PointsOf(qdrant, d.id)
                  after == PointsOf(qdrant', d.id)
                  ids == {d.qdrant_point_ids[i] : i \in 1..d.vector_count}
              IN  /\ Len(d.qdrant_point_ids) = d.vector_count
                  /\ {p.id : p \in after} = {p.id : p \in before} \cup ids
                  /\ Cardinality(after) =
                        SetMax({Cardinality(before), d.vector_count})
                  /\ \A p, q \in after :
                        p.chunk_index = q.chunk_index => p.id = q.id]_vars

\* A document vectorized twice holds one entry per chunk in the index.
C7_Witness ==
    \E d \in db.docs :
        /\ Cardinality(CompletedJobsOf(db.jobs, d.id)) = 2
        /\ d.is_vectorized
        /\ Cardinality(PointsOf(qdrant, d.id)) = d.vector_count

\* C8: a similarity probe returns documents of the candidate's category
\* only: the related documents an approval records for a case study are
\* case studies, those it records for a general document are general.
C8_CollectionIsolation ==
    \A i \in 1..Len(db.approvals) :
        \A d \in DocById(db.docs, db.approvals[i].new_document_id) :
            \A r \in db.approvals[i].related_documents :
                \A e \in DocById(db.docs, r) :
                    e.document_type = d.document_type

\* C9: once a pass has processed the bytes of the deck, which yield M
\* structured records, no row path#case_study_k with k > M is left (for
\* every M from 0 on), and the index holds no vector of a deleted row.
C9_OrphanReconciliation ==
    \A d \in db.docs :
        (/\ d.blob_path = BlobPath(FileDeck, 0)
         /\ d.file_hash = Sha256(store[FileDeck])) =>
            /\ \A e \in db.docs :
                  (e.blob_path[1] = FileDeck /\ e.blob_path[2] # 0) =>
                      e.blob_path[2] <= Len(ParseCaseStudies(store[FileDeck]))
            /\ \A p \in qdrant : DocById(db.docs, p.document_id) # {}

\* The step is a review: it is neither a turn of a pass nor a write to the
\* container.
ReviewStep == scans' = scans /\ store' = store

\* C10: a review of an approval that does not exist or is not pending is
\* answered with an error and changes no state: a closed approval keeps its
\* status, reviewer, timestamp and comment in every step, and a review either
\* closes an approval that was pending or fails leaving rows, index and
\* clock as they were.
C10_ReviewMisuseFails ==
    [][/\ \A i \in 1..Len(db.approvals) :
             db.approvals[i].status # "pending" =>
                 /\ i <= Len(db'.approvals)
                 /\ db'.approvals[i] = db.approvals[i]
       /\ ReviewStep =>
             \/ /\ resp' = "success"
                /\ \E i \in OpenIds :
                      db'.approvals[i].status \in {"approved", "rejected"}
             \/ /\ resp' = "error"
                /\ db' = db
                /\ qdrant' = qdrant
                /\ clock' = clock]_vars

\* A review was refused while an approved and a rejected approval exist.
C10_Witness ==
    /\ resp = "error"
    /\ \E i \in 1..Len(db.approvals) : db.approvals[i].status = "approved"
    /\ \E i \in 1..Len(db.approvals) : db.approvals[i].status = "rejected"
    /\ OpenIds = {}

\* The document an approval refers to, in the rows given.
DocOfApproval(docs, approval) == DocById(docs, approval.new_document_id)

\* C11 as stated: an approval is never approved while its Document is
\* unvectorized.
C11_ApprovedImpliesVectorized ==
    \A i \in 1..Len(db.approvals) :
        db.approvals[i].status = "approved" =>
            \A d \in DocOfApproval(db.docs, db.approvals[i]) : d.is_vectorized

\* C11 amended: a review closes an approval and vectorizes its Document
\* together.  In a review step an approval that was pending either becomes
\* approved, with reviewer, timestamp and comment, its Document vectorized by
\* a job completed in the step; or becomes rejected with no job and no
\* vector written; or stays as it was, and then the step wrote no failed job
\* and vectorized its Document only by approving another approval of it.
C11_ApproveIsAtomic ==
    [][ReviewStep =>
          \A i \in OpenIds :
              LET a == db.approvals[i]
                  b == db'.approvals[i]
              IN  \/ /\ b = Reviewed(a, "approved", b.reviewed_by, b.admin_comment)
                     /\ b.reviewed_by \in Admins
                     /\ CompletedInStep(a.new_document_id)
                     /\ \A d \in DocOfApproval(db'.docs, a) : d.is_vectorized
                  \/ /\ b = Reviewed(a, "rejected", b.reviewed_by, b.admin_comment)
                     /\ b.reviewed_by \in Admins
                     /\ db'.jobs = db.jobs
                     /\ db'.docs = db.docs
                     /\ qdrant' = qdrant
                  \/ /\ b = a
                     /\ \A j \in 1..Len(db'.jobs) :
                           j > Len(db.jobs) => db'.jobs[j].status = "completed"
                     /\ BecomesVectorized(a.new_document_id) =>
                           ApprovedInStep(a.new_document_id)]_vars

\* An approve succeeded: the approval is approved by the admin and its
\* Document is vectorized with a completed job.
C11_Witness ==
    /\ resp = "success"
    /\ \E i \in 1..Len(db.approvals) :
          /\ db.approvals[i].status = "approved"
          /\ db.approvals[i].reviewed_by = "admin1"
          /\ \E d \in DocOfApproval(db.docs, db.approvals[i]) :
                /\ d.is_vectorized
                /\ CompletedJobsOf(db.jobs, d.id) # {}

\* The turn of pass s wrote nothing and counted nothing.
Untouched(s) ==
    /\ db' = db
    /\ qdrant' = qdrant
    /\ scans'[s].stats = scans[s].stats

\* The step processed the document: it ran one vectorization of it or
\* opened one approval for it.
ProcessedInStep(doc_id) ==
    \/ /\ Len(db'.jobs) = Len(db.jobs) + 1
       /\ db'.jobs[Len(db'.jobs)].document_id = doc_id
       /\ db'.approvals = db.approvals
    \/ /\ Len(db'.approvals) = Len(db.approvals) + 1
       /\ db'.approvals[Len(db'.approvals)].new_document_id = doc_id
       /\ db'.approvals[Len(db'.approvals)].status = "pending"
       /\ db'.jobs = db.jobs

\* The turn counted the document once, in the counter given.
CountedAs(s, field) ==
    /\ scans'[s].stats[field] = scans[s].stats[field] + 1
    /\ \A other \in {"new", "updated"} \ {field} :
          scans'[s].stats[other] = scans[s].stats[other]

\* C12: the turn of a pass on a listed object that can be read does what the
\* stored row decides: no row, a row is created with the fingerprint and the
\* document is processed and counted new; fingerprint equal and the row
\* vectorized or with an open approval, nothing is written; fingerprint
\* equal otherwise, the document is processed again and counted updated;
\* fingerprint different, the row takes the new fingerprint and size, is
\* vectorized only by a job of this turn, and is processed and counted
\* updated.  An object that cannot be read is left as it is.
C12_AdmissionStateMachine ==
    [][\A s \in Scanners, f \in Files :
          (ScanStepOn(s, f) /\ ~IsPendingPath(f)) =>
              LET b == store[f]
                  ex == DocByPath(db.docs, BlobPath(f, 0))
                  old == CHOOSE d \in ex : TRUE
                  row(id) == {d \in db'.docs : d.id = id}
              IN  \/ Untouched(s)
                  \/ /\ ex = {}
                     /\ CountedAs(s, "new")
                     /\ \E d \in db'.docs \ db.docs :
                           /\ d.blob_path = BlobPath(f, 0)
                           /\ d.file_hash = Sha256(b)
                           /\ d.file_size = FileSize(b)
                           /\ ProcessedInStep(d.id)
                  \/ /\ ex # {}
                     /\ old.file_hash = Sha256(b)
                     /\ ~old.is_vectorized
                     /\ ~HasPendingApproval(db.approvals, old.id)
                     /\ CountedAs(s, "updated")
                     /\ ProcessedInStep(old.id)
                     /\ \A d \in row(old.id) : d.file_hash = old.file_hash
                  \/ /\ ex # {}
                     /\ old.file_hash # Sha256(b)
                     /\ CountedAs(s, "updated")
                     /\ ProcessedInStep(old.id)
                     /\ \A d \in row(old.id) :
                           /\ d.file_hash = Sha256(b)
                           /\ d.file_size = FileSize(b)
                           /\ d.is_vectorized => CompletedInStep(old.id)]_vars

\* A pass went over two documents: it skipped one and processed the other,
\* whose bytes had changed after its first vectorization.
C12_Witness ==
    /\ Running("sched")
    /\ scans["sched"].todo = <<>>
    /\ scans["sched"].stats.scanned = 2
    /\ scans["sched"].stats.new = 0
    /\ scans["sched"].stats.updated = 1
    /\ \E d \in db.docs :
          /\ RowUnchanged(d, FileB)
          /\ Cardinality(CompletedJobsOf(db.jobs, d.id)) = 2

\* The best score of a text against the vectors of the other documents in
\* the collection the probe searches; 0 when there is none.
BestScore(doc_id, topic) ==
    SetMax({0} \cup
           {Score(topic, p.vector) :
               p \in {q \in qdrant : /\ q.collection = SearchCollection
                                      /\ q.document_id # doc_id
                                      /\ DocById(db.docs, q.document_id) # {}}})

\* The step opened one approval of this type and score for the document and
\* did not vectorize it.
FlaggedInStep(doc_id, update_type, score) ==
    /\ Len(db'.approvals) = Len(db.approvals) + 1
    /\ LET a == db'.approvals[Len(db'.approvals)]
       IN  /\ a.new_document_id = doc_id
           /\ a.status = "pending"
           /\ a.update_type = update_type
           /\ a.similarity_score = score
    /\ db'.jobs = db.jobs
    /\ qdrant' = qdrant
    /\ \A d \in DocById(db'.docs, doc_id) : ~d.is_vectorized

\* C13: a document the scan processes, whose best score against the other
\* documents is s, gets an approval of type duplicate when s > 0.95, one of
\* type update when 0.85 < s <= 0.95, and is vectorized at once with no
\* approval when s <= 0.85 (s = 0.85 included) or nothing matches.
C13_ThresholdClassification ==
    [][\A s \in Scanners, f \in ThresholdFiles :
          (ScanStepOn(s, f) /\ ~Untouched(s)) =>
              \E d \in db'.docs :
                  /\ d.blob_path = BlobPath(f, 0)
                  /\ LET best == BestScore(d.id, TextContent(f, store[f]).topic)
                     IN  IF best > duplicate_threshold
                         THEN FlaggedInStep(d.id, "duplicate", best)
                         ELSE IF best > similarity_threshold
                         THEN FlaggedInStep(d.id, "update", best)
                         ELSE /\ CompletedInStep(d.id)
                              /\ d.is_vectorized
                              /\ db'.approvals = db.approvals]_vars

\* A document scoring exactly 0.95 was flagged as update, and then, with
\* bytes scoring exactly 0.85, vectorized at once.
C13_Witness ==
    /\ \E i \in 1..Len(db.approvals) :
          /\ db.approvals[i].similarity_score = duplicate_threshold
          /\ db.approvals[i].update_type = "update"
    /\ \E d \in db.docs :
          /\ RowUnchanged(d, FileC)
          /\ store[FileC] = 8
          /\ d.is_vectorized
          /\ BestScore(d.id, ExtractText(8).topic) = similarity_threshold

\* C14: a Document with is_vectorized = true has a vector count above 0 and
\* a vector id list as long as the vector count.
C14_DocumentInvariant ==
    \A d \in db.docs :
        d.is_vectorized =>
            /\ d.vector_count > 0
            /\ Len(d.qdrant_point_ids) = d.vector_count

\* One document is vectorized with its three vectors while another, once
\* vectorized, has been reset after a failed job.
C14_Witness ==
    /\ \E d \in db.docs :
          /\ d.is_vectorized
          /\ d.vector_count = 3
    /\ \E d \in db.docs :
          /\ ~d.is_vectorized
          /\ d.vector_count = 0
          /\ d.qdrant_point_ids = <<>>
          /\ CompletedJobsOf(db.jobs, d.id) # {}
          /\ JobsOf(db.jobs, d.id) # CompletedJobsOf(db.jobs, d.id)

ProcessingJobsOf(jobs, doc_id) ==
    {i \in JobsOf(jobs, doc_id) : jobs[i].status = "processing"}

\* C15: at most one ProcessingJob with status processing exists for a
\* Document (one whose row is committed, which every pass reads).
C15_OneProcessingJob ==
    \A d \in committed.docs :
        Cardinality(ProcessingJobsOf(db.jobs, d.id)) <= 1

\* The jobs the step added to the job table.
NewJobs == {i \in 1..Len(db'.jobs) : i > Len(db.jobs)}

\* C16: a vectorization that ends leaves the Document and its job updated
\* together: a job that ends completed has vectors_created equal to the
\* vector count of its Document, which is vectorized; a job that ends failed
\* carries an error message and its Document is not vectorized; no job is
\* left processing.
C16_VectorizeUpdatesTogether ==
    [][\A i \in NewJobs :
          LET j == db'.jobs[i]
              docs == DocById(db'.docs, j.document_id)
          IN  /\ j.status \in {"completed", "failed"}
              /\ j.status = "completed" =>
                    /\ docs # {}
                    /\ \A d \in docs : /\ d.is_vectorized
                                       /\ d.vector_count = j.vectors_created
                                       /\ j.vectors_created > 0
              /\ j.status = "failed" =>
                    /\ j.error_message # "none"
                    /\ \A d \in docs : ~d.is_vectorized]_vars

\* One vectorization of a document failed and a later one completed with
\* the three vectors of its row.
C16_Witness ==
    \E d \in db.docs :
        /\ d.is_vectorized
        /\ d.vector_count = 3
        /\ \E i, k \in JobsOf(db.jobs, d.id) :
              /\ i < k
              /\ db.jobs[i].status = "failed"
              /\ db.jobs[i].error_message # "none"
              /\ db.jobs[k].status = "completed"
              /\ db.jobs[k].vectors_created = 3

\* C17: a vectorization that fails during the turn of a pass, on a plain
\* document or on one structured record of a multi-record file, leaves its
\* job failed with a message and its Document unvectorized, is counted once
\* in the failed counter of the pass, and the pass goes on with the next
\* object.
C17_FailureIsolation ==
    [][\A s \in Scanners :
          (Running(s) /\ scans[s].todo # <<>>) =>
              \A i \in NewJobs :
                  db'.jobs[i].status = "failed" =>
                      /\ db'.jobs[i].error_message # "none"
                      /\ \A d \in DocById(db'.docs, db'.jobs[i].document_id) :
                            ~d.is_vectorized
                      /\ scans'[s].stats.failed = scans[s].stats.failed + 1
                      /\ Running(s)'
                      /\ scans'[s].todo = Tail(scans[s].todo)]_vars

\* The step ends pass s between two documents, without its commit.
CrashStep(s) ==
    /\ Running(s)
    /\ scans[s].todo # <<>>
    /\ scans'[s].pc = "idle"

\* The step ends pass s after its last document, with its commit.
EndStep(s) ==
    /\ Running(s)
    /\ scans[s].todo = <<>>
    /\ scans'[s].pc = "idle"

\* C18: a pass that is cancelled or crashes between documents keeps the
\* stored state of every document it finished (row, is_vectorized, completed
\* job), and once the next pass has run to its end the index holds no
\* vectors of a document id that has no Document row.
C18_CrashRecovery ==
    [][\A s \in Scanners :
          /\ CrashStep(s) =>
                \A d \in db.docs :
                    d.is_vectorized =>
                        /\ d \in db'.docs
                        /\ CompletedJobsOf(db'.jobs, d.id) # {}
          /\ EndStep(s) =>
                \A p \in qdrant' : DocById(db'.docs, p.document_id) # {}]_vars

\* C18, its second half alone: after a pass that ran to its end, the index
\* holds no vectors of a document id that has no Document row.
C18_NoVectorsWithoutRow ==
    [][\A s \in Scanners :
          EndStep(s) =>
              \A p \in qdrant' : DocById(db'.docs, p.document_id) # {}]_vars

FailedJobsOf(jobs, doc_id) ==
    {i \in JobsOf(jobs, doc_id) : jobs[i].status = "failed"}

\* The Document is in the state a reset leaves: its vectorization failed
\* and it holds no flag, no count and no ids.
ResetState(rows, d) ==
    /\ FailedJobsOf(rows.jobs, d.id) # {}
    /\ ~d.is_vectorized
    /\ d.vector_count = 0
    /\ d.qdrant_point_ids = <<>>

\* A reset was answered, no other pass is at work, and the committed row of
\* the Document is in the state the reset leaves.
AfterReset(d) ==
    /\ resp = "success"
    /\ scans["sched"].pc = "idle"
    /\ d \in committed.docs
    /\ ResetState(committed, d)

\* The step ran a vectorization of the document or opened an approval for it.
Retried(doc_id) ==
    \/ Cardinality(JobsOf(db'.jobs, doc_id)) > Cardinality(JobsOf(db.jobs, doc_id))
    \/ \E i \in 1..Len(db'.approvals) :
          /\ i > Len(db.approvals)
          /\ db'.approvals[i].new_document_id = doc_id

\* C19: reset-failed-documents leaves every Document that has a failed job
\* with is_vectorized false, vector count 0 and no vector ids; and the turn
\* of a pass whose collaborators answer every call, on an object whose
\* bytes did not change, retries every such Document of that object, the
\* structured records of a multi-record file included.
C19_ResetFailedRecovery ==
    [][/\ (ReviewStep /\ resp' = "success") =>
            \A d \in committed'.docs :
                FailedJobsOf(committed.jobs, d.id) # {} =>
                    ResetState(committed', d)
       /\ \A f \in Files :
            (ScanStepOn("upload", f) /\ ~IsPendingPath(f)) =>
                \A d \in db.docs :
                    (/\ \E k \in 0..MaxRecords : d.blob_path = BlobPath(f, k)
                     /\ d.file_hash = Sha256(store[f])
                     /\ AfterReset(d)
                     /\ ~HasPendingApproval(db.approvals, d.id))
                        => Retried(d.id)]_vars

\* C19 for the Documents that are whole files.
C19_ResetRetriesWholeFiles ==
    [][/\ (ReviewStep /\ resp' = "success") =>
            \A d \in committed'.docs :
                FailedJobsOf(committed.jobs, d.id) # {} =>
                    ResetState(committed', d)
       /\ \A f \in Files :
            (ScanStepOn("upload", f) /\ ~IsPendingPath(f)) =>
                \A d \in db.docs :
                    (/\ d.blob_path = BlobPath(f, 0)
                     /\ d.file_hash = Sha256(store[f])
                     /\ AfterReset(d)
                     /\ ~HasPendingApproval(db.approvals, d.id))
                        => Retried(d.id)]_vars

\* What GET /scan/status answers.
get_scan_status ==
    [is_scanning |-> scan_state.is_scanning,
     has_stats |-> scan_state.has_stats,
     stats |-> scan_state.stats,
     error |-> scan_state.error]

\* C20: the status of a scan that ended with an error shows is_scanning
\* false and the error together with the counts of the pass, not an empty
\* stats value.
C20_StatusReportsProgress ==
    (get_scan_status.error # "none" /\ ~get_scan_status.is_scanning)
        => get_scan_status.has_stats

\* C21: the probe answers with the best matches among the vectors of the
\* other documents, the candidate's own earlier vectors left aside: a
\* document the turn of a pass vectorizes at once has no vector of another
\* document scoring above the threshold against it.
C21_ProbeIgnoresOwnVectors ==
    [][\A s \in Scanners, f \in ProbeFiles :
          ScanStepOn(s, f) =>
              \A d \in db'.docs :
                  (d.blob_path = BlobPath(f, 0) /\ CompletedInStep(d.id)) =>
                      BestScore(d.id, TextContent(f, store[f]).topic)
                          <= similarity_threshold]_vars

\* The file is one whose rows are its structured records.
Structured(f) ==
    /\ IsCaseStudyDocument(f)
    /\ IsPpt(f)
    /\ Len(ParseCaseStudies(store[f])) > 0

\* The texts of the rows of file f: row 0 holds the whole text, or the first
\* record of a structured file, row k >= 2 holds record k.
RowTexts(f) ==
    IF Structured(f)
    THEN {[k |-> IF i = 1 THEN 0 ELSE i, text |-> ParseCaseStudies(store[f])[i]] :
              i \in 1..Len(ParseCaseStudies(store[f]))}
    ELSE {[k |-> 0, text |-> TextContent(f, store[f])]}

\* The turn left the row k of f, whose text is short, aside: no job and no
\* approval for it, no vector of it upserted, the row unvectorized if it
\* holds the bytes of the file, and the pass going on.
SkippedInStep(s, f, k) ==
    /\ scans'[s].stats.failed = scans[s].stats.failed
    /\ scans'[s].pc = "running"
    /\ \A d \in DocByPath(db'.docs, BlobPath(f, k)) :
          /\ JobsOf(db'.jobs, d.id) = JobsOf(db.jobs, d.id)
          /\ ApprovalsOf(db'.approvals, d.id) = ApprovalsOf(db.approvals, d.id)
          /\ PointsOf(qdrant', d.id) = PointsOf(qdrant, d.id)
          /\ d.file_hash = Sha256(store[f]) => ~d.is_vectorized

\* C22 as stated: a text of fewer than 50 characters that are not blank is
\* skipped.
C22_SkipOnFewNonBlank ==
    [][\A s \in Scanners, f \in Files :
          (ScanStepOn(s, f) /\ ~IsPendingPath(f)) =>
              \A r \in RowTexts(f) :
                  r.text.nonblank < min_text_len => SkippedInStep(s, f, r.k)]_vars

\* C22: a text that is empty or shorter than 50 characters once its leading
\* and trailing whitespace is stripped is skipped without failing the scan:
\* no ProcessingJob and no PendingApproval is created for it, nothing is
\* upserted, the Document stays unvectorized, the failed counter is not
\* incremented, and the pass goes on with the next object.
C22_SkipOnShortText ==
    [][\A s \in Scanners, f \in Files :
          (ScanStepOn(s, f) /\ ~IsPendingPath(f)) =>
              \A r \in RowTexts(f) :
                  r.text.len < min_text_len => SkippedInStep(s, f, r.k)]_vars

\* A pass went over a plain file of 30 characters and a file whose second
\* record has 30 characters: both rows are stored unvectorized with no job,
\* the first record is vectorized, and nothing was counted as failed.
C22_Witness ==
    /\ Running("sched")
    /\ scans["sched"].todo = <<>>
    /\ scans["sched"].stats.failed = 0
    /\ store[FileNotes] = 6
    /\ store[FileBrief] = 16
    /\ \E d \in DocByPath(db.docs, BlobPath(FileNotes, 0)) :
          /\ d.file_hash = Sha256(6)
          /\ ~d.is_vectorized
          /\ JobsOf(db.jobs, d.id) = {}
    /\ \E d \in DocByPath(db.docs, BlobPath(FileBrief, 2)) :
          /\ ~d.is_vectorized
          /\ JobsOf(db.jobs, d.id) = {}
    /\ \E d \in DocByPath(db.docs, BlobPath(FileBrief, 0)) : d.is_vectorized

\* What _process_single_document does to a listed plain document that can
\* be read, is admitted and has enough text, when the probe fails.
ProbeFailures(f) ==
    LET b == store[f]
        w == [db |-> db, qdrant |-> qdrant]
        adm == Admission(w, ZeroStats, f, b)
    IN  {[adm |-> adm, env |-> env,
          r |-> ProcessSingleDocument(w, ZeroStats, f, b, env)] :
            env \in {e \in Envs(f, b, FALSE) :
                        /\ e.download
                        /\ ~e.probe_ok
                        /\ adm.go
                        /\ ~Structured(f)
                        /\ Sufficient(TextContent(f, b))}}

\* C23: a probe that fails (its embedding call fails or returns nothing
\* usable, or the search fails) counts as no similar documents found: the
\* document goes on to its vectorization, no PendingApproval is created, and
\* the document fails only if its vectorization does.
C23_ProbeFailureIsNoGate ==
    \A f \in Files :
        (store[f] # 0 /\ ~IsPendingPath(f)) =>
            \A c \in ProbeFailures(f) :
                /\ c.r.w.db.approvals = c.adm.w.db.approvals
                /\ c.r.stats.pending_approval = 0
                /\ Len(c.r.w.db.jobs) = Len(db.jobs) + 1
                /\ c.r.w.db.jobs[Len(db.jobs) + 1].document_id = c.adm.doc_id
                /\ c.r.raised <=> c.env.vec # "ok"
                /\ c.env.vec = "ok" =>
                      \A d \in DocById(c.r.w.db.docs, c.adm.doc_id) : d.is_vectorized

\* Two documents that score 0.97 against each other are both vectorized and
\* no approval was ever opened: the probe of the second one failed.
C23_Witness ==
    /\ db.approvals = <<>>
    /\ store[FileA] = 1
    /\ store[FileB] = 2
    /\ \A f \in {FileA, FileB} :
          \E d \in DocByPath(db.docs, BlobPath(f, 0)) :
              /\ d.is_vectorized
              /\ d.file_hash = Sha256(store[f])
              /\ BestScore(d.id, TextContent(f, store[f]).topic) > similarity_threshold

\* One of the folders of the file is named pending.
UnderPending(f) == \E i \in 1..Len(DirSegments(f)) : DirSegments(f)[i] = "pending"

\* C24: no scan ingests an object under a pending folder: no Document row
\* exists for such a path, and every ProcessingJob, PendingApproval and
\* vector belongs to a Document row (of a path that is not under one).
C24_PendingNeverIngested ==
    /\ \A d \in db.docs : ~UnderPending(d.blob_path[1])
    /\ \A i \in 1..Len(db.jobs) : DocById(db.docs, db.jobs[i].document_id) # {}
    /\ \A i \in 1..Len(db.approvals) :
          DocById(db.docs, db.approvals[i].new_document_id) # {}
    /\ \A p \in qdrant : DocById(db.docs, p.document_id) # {}

\* A pass went over two objects under a pending folder and one beside them:
\* it skipped the two and vectorized the third.
C24_Witness ==
    /\ Running("sched")
    /\ scans["sched"].todo = <<>>
    /\ store[FilePend] # 0
    /\ store[FileNested] # 0
    /\ scans["sched"].stats.scanned = 3
    /\ scans["sched"].stats.pending_approval = 2
    /\ \E d \in DocByPath(db.docs, BlobPath(FileA, 0)) : d.is_vectorized
    /\ Cardinality(db.docs) = 1

\* The row k of file f is one the next scan has to retry: it is stored
\* unvectorized with the bytes now under the path, has no open approval and
\* a text long enough, and the job table has room for its job.
AwaitsRetry(f, k) ==
    /\ store[f] # 0
    /\ \E r \in RowTexts(f) : r.k = k /\ Sufficient(r.text)
    /\ \E d \in DocByPath(db.docs, BlobPath(f, k)) :
          /\ ~d.is_vectorized
          /\ d.file_hash = Sha256(store[f])
          /\ ~HasPendingApproval(db.approvals, d.id)
    /\ Len(db.jobs) < MaxJobs

\* C25: every Document row that awaits a retry, the rows path#case_study_k
\* of a multi-record file included, is taken up by a later scan: with scans
\* whose collaborators answer every call running again and again, it does
\* not stay unvectorized forever.
C25_RetryLiveness ==
    \A f \in RetryFiles, k \in 0..MaxRecords :
        AwaitsRetry(f, k) ~> ~AwaitsRetry(f, k)

\* C25, one scan at a time: the turn of a scheduled pass, whose
\* collaborators answer every call, on a file leaves every row of the file
\* that awaited a retry vectorized.
C25_NextScanRetries ==
    [][\A f \in RetryFiles, k \in 0..MaxRecords :
          (ScanStepOn("sched", f) /\ AwaitsRetry(f, k)) =>
              \E d \in DocByPath(db'.docs, BlobPath(f, k)) : d.is_vectorized]_vars

\* C26: the vectors of the index that carry the id of a vectorized Document
\* are exactly those whose ids are in its vector id list: none of an earlier
\* version stays behind.
C26_NoStaleVectors ==
    \A d \in db.docs :
        d.is_vectorized =>
            {p.id : p \in PointsOf(qdrant, d.id)} =
                {d.qdrant_point_ids[i] : i \in 1..Len(d.qdrant_point_ids)}

\* Two files whose contents are close enough to each other for an approval
\* to open.
RaceUploads == {<<FileA, 1>>, <<FileB, 2>>}

\* Two admins whose review calls overlap: each call reads, then writes and
\* commits, and the steps of the two calls interleave.
NextRace ==
    \/ \E u \in RaceUploads : PutObject(u[1], u[2])
    \/ ScanBegin("sched")
    \/ ScanDoc("sched", TRUE)
    \/ ScanEnd("sched")
    \/ \E a \in Admins, id \in ApprovalIds : ReviewRead(a, "approving", id)
    \/ \E a \in Admins, id \in ApprovalIds : ReviewRead(a, "rejecting", id)
    \/ \E a \in Admins, download \in BOOLEAN, vec \in Outcomes :
            ApproveWrite(a, "none", download, vec)
    \/ \E a \in Admins : RejectWrite(a, "none")

SpecRace == Init /\ [][NextRace]_vars

\* C27: of the review calls that overlap on one approval exactly one performs
\* the transition: every step that writes an approval finds it pending, so an
\* approval that was approved (its Document vectorized) is never turned
\* rejected or approved a second time.
C27_OneReviewWins ==
    [][\A i \in 1..Len(committed.approvals) :
            committed'.approvals[i] # committed.approvals[i] =>
                committed.approvals[i].status = "pending"]_vars

\* The most recent ProcessingJob of the document is completed.
LastJobCompleted(jobs, doc_id) ==
    /\ JobsOf(jobs, doc_id) # {}
    /\ LET last == CHOOSE i \in JobsOf(jobs, doc_id) :
                       \A j \in JobsOf(jobs, doc_id) : j <= i
       IN  jobs[last].status = "completed"

\* The step is a reset: rows change while the container, the passes, the
\* index and the clock stay as they are.
ResetStep ==
    /\ committed' # committed
    /\ store' = store
    /\ scans' = scans
    /\ qdrant' = qdrant
    /\ clock' = clock

\* C28: a reset leaves every Document whose most recent ProcessingJob is
\* completed, and which is vectorized, with its flag, vector count and vector
\* id list as they were, even if an older job of it is failed.
C28_ResetKeepsVectorized ==
    [][ResetStep =>
          \A d \in committed.docs :
              (d.is_vectorized /\ LastJobCompleted(committed.jobs, d.id)) =>
                  d \in committed'.docs]_vars

----------------------------------------------------------------------------
(* The chunker *)

MaxTextLen == 2600

\* A text given to the chunker: len characters, the first lead and the last
\* trail of them blanks, letters between them, and ". " at position dot
\* (dot = -1: no sentence end).
CharAt(t, i) ==
    IF i < t.lead \/ i >= t.len - t.trail THEN " "
    ELSE IF t.dot >= 0 /\ i = t.dot THEN "."
    ELSE IF t.dot >= 0 /\ i = t.dot + 1 THEN " "
    ELSE "a"

ChunkLens ==
    {0, 1, 5, chunk_size - 1, chunk_size, chunk_size + 1,
     chunk_size + overlap, 2 * chunk_size - overlap, 2 * chunk_size + 1,
     MaxTextLen}

ChunkTexts ==
    [len : ChunkLens,
     lead : {0, 3, chunk_size - 100, chunk_size + 100},
     trail : {0, 2, overlap + 50, chunk_size + 100},
     dot : {-1, 650, 700, 701, 850, 998, 1500}]

Smaller(a, b) == IF a < b THEN a ELSE b

\* text[a:b]: the positions a..b-1 that the text has.
Slice(t, a, b) == <<a, Smaller(b, t.len)>>

\* str.strip() of a slice: the slice from its first to its last non-blank
\* character, the empty slice if it has none.
Strip(t, c) ==
    LET P == {i \in c[1]..(c[2] - 1) : CharAt(t, i) # " "}
    IN  IF P = {} THEN <<c[1], c[1]>>
        ELSE <<CHOOSE i \in P : \A j \in P : i <= j,
               (CHOOSE i \in P : \A j \in P : j <= i) + 1>>

\* chunk.rfind('. '): the last offset in the slice where ". " begins, or -1.
RFindPeriod(t, c) ==
    LET P == {i \in c[1]..(c[2] - 2) :
                 CharAt(t, i) = "." /\ CharAt(t, i + 1) = " "}
    IN  IF P = {} THEN -1
        ELSE (CHOOSE i \in P : \A j \in P : j <= i) - c[1]

\* A chunk is empty or made of blanks only.
BlankChunk(t, c) == \A i \in c[1]..(c[2] - 1) : CharAt(t, i) = " "

\* Lines 562-566: a text of at most one window is returned whole, as it is;
\* a longer one enters the loop.
ChunkEnter ==
    /\ call.pc = "enter"
    /\ call' = IF call.text.len <= chunk_size
               THEN [call EXCEPT !.pc = "done",
                                 !.out = <<Slice(call.text, 0, call.text.len)>>]
               ELSE [call EXCEPT !.pc = "loop"]
    /\ UNCHANGED <<store, db, committed, qdrant, scans, scan_state, resp,
                   clock, reviews>>

\* Lines 568-580: one turn of the loop.
ChunkLoop ==
    /\ call.pc = "loop"
    /\ call.start < call.text.len
    /\ LET t == call.text
           window == call.start + chunk_size
           last_period == RFindPeriod(t, Slice(t, call.start, window))
           end == IF window < t.len /\ 10 * last_period > 7 * chunk_size
                  THEN call.start + last_period + 1
                  ELSE window
       IN  call' = [call EXCEPT
                       !.chunks = Append(@, Strip(t, Slice(t, call.start, end))),
                       !.start = end - overlap]
    /\ UNCHANGED <<store, db, committed, qdrant, scans, scan_state, resp,
                   clock, reviews>>

\* Lines 568, 582: the loop ends and the empty chunks are removed.
ChunkReturn ==
    /\ call.pc = "loop"
    /\ call.start >= call.text.len
    /\ call' = [call EXCEPT !.pc = "done",
                            !.out = SelectSeq(call.chunks,
                                              LAMBDA c : c[1] < c[2])]
    /\ UNCHANGED <<store, db, committed, qdrant, scans, scan_state, resp,
                   clock, reviews>>

\* _chunk_text is called with one of the texts.
InitChunk ==
    /\ store = [f \in Files |-> 0]
    /\ db = [docs |-> {}, jobs |-> <<>>, approvals |-> <<>>, next_id |-> 1]
    /\ committed = db
    /\ qdrant = {}
    /\ scans = [s \in Scanners |-> Idle]
    /\ scan_state = NoStats
    /\ resp = "none"
    /\ clock = 1
    /\ reviews = [a \in Admins |-> NoReview]
    /\ \E t \in ChunkTexts :
          call = [pc |-> "enter", text |-> t, start |-> 0, chunks |-> <<>>,
                  out |-> <<>>]

NextChunk ==
    \/ ChunkEnter
    \/ ChunkLoop
    \/ ChunkReturn

SpecChunk == InitChunk /\ [][NextChunk]_vars

\* Chunking terminates: every turn of the loop moves start forward by more
\* than half a window, and the loop is left once start has passed the text.
ChunkAdvances ==
    [][(call.pc = "loop" /\ call'.pc = "loop") =>
          /\ call.start < call.text.len
          /\ 2 * (call'.start - call.start) > chunk_size]_vars

\* A text no longer than one window comes back whole as a single chunk.
ChunkShortWhole ==
    (call.pc = "done" /\ call.text.len <= chunk_size) =>
        call.out = <<(<<0, call.text.len>>)>>

\* C29: for every input text, the empty and the blank ones included, no chunk
\* that _chunk_text returns is empty or made of blanks only.
C29_NoEmptyChunk ==
    call.pc = "done" =>
        \A k \in 1..Len(call.out) : ~BlankChunk(call.text, call.out[k])

----------------------------------------------------------------------------
(* The case-study splitter *)

MaxSlides == 3

\* What _extract_section_content finds for a field: a text of len characters
\* taken from slide src (len 0: nothing found).
Content(len, src) == [len |-> len, src |-> src]

NoContent == Content(0, 0)

\* A client name of more than 100 characters, company and description
\* separated by a dash.
LongName == "Acme - profile"

ClientNames == {"", "Unknown Client", "Acme", LongName}

\* The description part of the long name: more than 50 characters.
DescriptionLen == 60

\* A slide, as the helpers of the parser see it: whether it is a title slide,
\* the client name it gives, and the length of the content under the headers
\* of each field.
TitleSlides ==
    [title : {TRUE}, name : ClientNames, overview : {0}, solution : {0},
     impact : {0}]
        \cup {[title |-> TRUE, name |-> "Acme", overview |-> 21,
                solution |-> 0, impact |-> 0]}

BodySlides ==
    {[title |-> FALSE, name |-> "", overview |-> c[1], solution |-> c[2],
      impact |-> c[3]] :
        c \in {<<0, 0, 0>>, <<20, 0, 0>>, <<21, 0, 0>>, <<30, 0, 0>>,
               <<0, 20, 0>>, <<0, 21, 0>>, <<0, 0, 20>>, <<0, 0, 21>>,
               <<20, 20, 20>>}}

Slides == TitleSlides \cup BodySlides

Decks == UNION {[1..n -> Slides] : n \in 0..MaxSlides}

\* No case study is in progress (current_case_study is None).
NoRecord ==
    [open |-> FALSE, client_name |-> "", overview |-> NoContent,
     solution |-> NoContent, impact |-> NoContent, slide_range |-> <<0, 0>>]

\* Lines 55-61.
NewRecord(slide, idx) ==
    [open |-> TRUE, client_name |-> slide.name, overview |-> NoContent,
     solution |-> NoContent, impact |-> NoContent, slide_range |-> <<idx, idx>>]

\* The validity test with the limit included.
IsValidAtLeast20(cs) ==
    /\ cs.client_name # ""
    /\ cs.client_name # "Unknown Client"
    /\ \/ cs.overview.len >= 20
       \/ cs.solution.len >= 20
       \/ cs.impact.len >= 20

\* Lines 217-230: _is_valid_case_study.
IsValidCaseStudy(cs) ==
    /\ cs.client_name # ""
    /\ cs.client_name # "Unknown Client"
    /\ \/ cs.overview.len > 20
       \/ cs.solution.len > 20
       \/ cs.impact.len > 20

\* Lines 173-174, 179-180, 185-186: the content found replaces the field if
\* it is not empty and longer than the field.
Longer(field, len, idx) ==
    IF len > 0 /\ len > field.len THEN Content(len, idx) ELSE field

\* Lines 161-186 and 67-68: _extract_case_study_fields on the slide, and the
\* slide range.
ExtractCaseStudyFields(slide, idx, cs) ==
    [cs EXCEPT !.overview = Longer(@, slide.overview, idx),
               !.solution = Longer(@, slide.solution, idx),
               !.impact = Longer(@, slide.impact, idx),
               !.slide_range = <<@[1], idx>>]

\* Lines 50-51, 72-73: the record with its full text, as it is appended.
Emitted(cs) ==
    [client_name |-> cs.client_name, overview |-> cs.overview,
     solution |-> cs.solution, impact |-> cs.impact,
     slide_range |-> cs.slide_range,
     full_text |-> <<cs.client_name, cs.overview, cs.solution, cs.impact>>]

\* Lines 49-51, 71-73: the record in progress is appended if it is valid.
Flush(case_studies, cs) ==
    IF cs.open /\ IsValidCaseStudy(cs)
    THEN Append(case_studies, Emitted(cs))
    ELSE case_studies

\* Lines 233-276: a long client name over an empty overview is split into
\* the company and the description.
ExtractOverviewFromClientName(rec) ==
    IF rec.overview.len = 0 /\ rec.client_name = LongName
    THEN [rec EXCEPT !.client_name = "Acme",
                     !.overview = Content(DescriptionLen, 0)]
    ELSE rec

\* Lines 43-68: one slide of the loop.
SplitSlide ==
    /\ call.pc = "slides"
    /\ call.idx <= Len(call.slides)
    /\ LET slide == call.slides[call.idx]
           started == IF slide.title THEN NewRecord(slide, call.idx)
                      ELSE call.current
       IN  call' = [call EXCEPT
                       !.case_studies =
                           IF slide.title THEN Flush(@, call.current) ELSE @,
                       !.current =
                           IF started.open
                           THEN ExtractCaseStudyFields(slide, call.idx, started)
                           ELSE started,
                       !.idx = @ + 1]
    /\ UNCHANGED <<store, db, committed, qdrant, scans, scan_state, resp,
                   clock, reviews>>

\* Lines 70-81: the last record is flushed and the records are
\* post-processed and returned.
SplitEnd ==
    /\ call.pc = "slides"
    /\ call.idx > Len(call.slides)
    /\ LET all == Flush(call.case_studies, call.current)
       IN  call' = [call EXCEPT
                       !.pc = "parsed",
                       !.case_studies =
                           [i \in 1..Len(all) |->
                               ExtractOverviewFromClientName(all[i])]]
    /\ UNCHANGED <<store, db, committed, qdrant, scans, scan_state, resp,
                   clock, reviews>>

\* parse_case_study_from_ppt is called with one of the decks.
InitSplit ==
    /\ store = [f \in Files |-> 0]
    /\ db = [docs |-> {}, jobs |-> <<>>, approvals |-> <<>>, next_id |-> 1]
    /\ committed = db
    /\ qdrant = {}
    /\ scans = [s \in Scanners |-> Idle]
    /\ scan_state = NoStats
    /\ resp = "none"
    /\ clock = 1
    /\ reviews = [a \in Admins |-> NoReview]
    /\ \E deck \in Decks :
          call = [pc |-> "slides", slides |-> deck, idx |-> 1,
                  current |-> NoRecord, case_studies |-> <<>>]

NextSplit ==
    \/ SplitSlide
    \/ SplitEnd

SpecSplit == InitSplit /\ [][NextSplit]_vars

\* The step reaches a point where the record in progress is flushed: a title
\* slide or the end of the file.
FlushPoint ==
    /\ call.pc = "slides"
    /\ call.current.open
    /\ \/ call.idx > Len(call.slides)
       \/ call.slides[call.idx].title

\* The step appends the record in progress to the records of the file.
EmitsCurrent ==
    /\ Len(call'.case_studies) = Len(call.case_studies) + 1
    /\ call'.case_studies[Len(call'.case_studies)].full_text =
           <<call.current.client_name, call.current.overview,
             call.current.solution, call.current.impact>>

HasName(cs) == cs.client_name # "" /\ cs.client_name # "Unknown Client"

FieldLens(cs) == {cs.overview.len, cs.solution.len, cs.impact.len}

\* The step goes on with the record in progress and shortens none of its
\* fields.
NeverShorter ==
    (/\ call.pc = "slides"
     /\ call.current.open
     /\ ~FlushPoint) =>
        /\ call'.current.client_name = call.current.client_name
        /\ \A f \in {"overview", "solution", "impact"} :
               \/ call'.current[f] = call.current[f]
               \/ call'.current[f].len > call.current[f].len

\* C30 as stated: the record in progress is emitted at a flush point exactly
\* when it has a name and a field of at least 20 characters.
C30_FlushAtLeast20 ==
    [][/\ FlushPoint =>
             (EmitsCurrent <=>
                 (HasName(call.current)
                    /\ \E n \in FieldLens(call.current) : n >= 20))
       /\ NeverShorter]_vars

\* C30: the record in progress is emitted, at the next title slide or at the
\* end of the file, exactly when it has a name and one of overview, solution
\* and impact is longer than 20 characters; otherwise, and at every other
\* step, the records of the file stay as many as they were; and no field of
\* a record in progress is replaced by a text that is not longer.
C30_FlushMoreThan20 ==
    [][/\ FlushPoint =>
             /\ EmitsCurrent <=>
                    (HasName(call.current)
                       /\ \E n \in FieldLens(call.current) : n > 20)
             /\ ~EmitsCurrent =>
                    Len(call'.case_studies) = Len(call.case_studies)
       /\ (call.pc = "slides" /\ ~FlushPoint) =>
             call'.case_studies = call.case_studies
       /\ NeverShorter]_vars

\* A file of two case studies was parsed: one record was emitted and the
\* other, whose longest field has 20 characters, was dropped.
C30_Witness ==
    /\ call.pc = "parsed"
    /\ Len(call.case_studies) = 1
    /\ Cardinality({i \in 1..Len(call.slides) : call.slides[i].title}) = 2
    /\ call.current.open
    /\ HasName(call.current)
    /\ \E n \in FieldLens(call.current) : n = 20
    /\ \A n \in FieldLens(call.current) : n <= 20
====
